---- MODULE Spec2Model ----
(***************************************************************************)
(* Model of packages/now-go/go-helpers.ts: provisioning of the `go`        *)
(* toolchain (getGoUrl, downloadGo), creation of a toolchain handle        *)
(* (createGo, createGoPathTree), the handle's operations (go, get, build)  *)
(* and the exported-function detector (getExportedFunctionName).           *)
(*                                                                         *)
(* Directories are sequences of path components, so that join and dirname  *)
(* are computed; a PATH value is a sequence of directories (its            *)
(* ':'-separated entries); file names, working directories and URLs are    *)
(* strings.                                                                *)
(***************************************************************************)
EXTENDS Integers, Sequences, FiniteSets, TLC

\* ------------------------------------------------------------------ bounds
\* Number of provisioning calls (createGo / downloadGo) made by the caller.
MaxCalls == 1
\* Longest source list handed to build.
MaxSources == 2

\* ------------------------------------------------------------- input sets
Versions == {"1.12", "1.11.5"}
Platforms == {"win32", "windows", "linux"}
Archs == {"x64", "x86", "arm64"}
\* Targets the caller hands to createGo directly.
Targets == {<<"win32", "x64">>, <<"linux", "arm64">>}
Cwds == {"/a", "/b"}
SrcFiles == {"main.go", "util.go"}
DestFiles == {"handler"}
Statuses == {200, 404, 503}
ExitCodes == {0, 1}
Stdouts == {"", "Handler"}

\* The JavaScript value `undefined`, and JavaScript truthiness of a string.
undefined == "<undefined>"
Truthy(v) == v \notin {undefined, ""}

\* ---------------------------------------------------------- path helpers
join(a, b) == a \o b
dirname(p) == SubSeq(p, 1, Len(p) - 1)
Prefixes(p) == {SubSeq(p, 1, n) : n \in 1..Len(p)}
\* mkdirp(p) on a filesystem fs: p and every missing ancestor now exist.
mkdirp(fs, p) == fs \cup Prefixes(p)

\* {...a, ...b}: object spread, later keys win.
Spread(a, b) ==
  [k \in (DOMAIN a) \cup (DOMAIN b) |-> IF k \in DOMAIN b THEN b[k] ELSE a[k]]
Empty == [k \in {} |-> ""]
\* o[k] of a JavaScript object: `undefined` when the key is missing.
HasKey(o, k) == k \in DOMAIN o

\* ------------------------------------------------------ module constants
archMap == [x64 |-> "amd64", x86 |-> "386"]
platformMap == [win32 |-> "windows"]
dirnameOfModule == <<"__dirname">>
GO_DIR == join(dirnameOfModule, <<"go">>)
GO_BIN == join(GO_DIR, <<"bin", "go">>)

getPlatform(p) == IF p \in DOMAIN platformMap THEN platformMap[p] ELSE p
getArch(a) == IF a \in DOMAIN archMap THEN archMap[a] ELSE a

getGoUrl(version, platform, arch) ==
  LET goArch == getArch(arch)
      goPlatform == getPlatform(platform)
      ext == IF platform = "win32" THEN "zip" ELSE "tar.gz"
  IN "https://dl.google.com/go/go" \o version \o "." \o goPlatform
       \o "-" \o goArch \o "." \o ext

\* ----------------------------------------------------------------- inputs
Dirs == {GO_DIR, <<"tmp", "go">>}
GoPaths == {<<"tmp", "gopath">>}
\* Ambient process environments: with and without a PATH.
ProcessEnvs ==
  { [PATH |-> << <<"usr", "bin">> >>, HOME |-> "/root", GO111MODULE |-> "auto"],
    [HOME |-> "/root"] }
\* Caller-supplied opts.env values.
OptsEnvs ==
  { [GO111MODULE |-> "off"],
    [PATH |-> << <<"custom", "bin">> >>, GOPATH |-> <<"custom", "gopath">>] }
\* The opts bag: with or without cwd, with or without env (and another key).
OptsSet ==
  LET cwdPart == {Empty} \cup {[cwd |-> "/w"]}
      envPart == {Empty} \cup {[env |-> e, stdio |-> "pipe"] : e \in OptsEnvs}
  IN {Spread(c, e) : c \in cwdPart, e \in envPart}

VARIABLES processCwd, processEnv, dirs, calls, dl, cg, go, inv, det
vars == <<processCwd, processEnv, dirs, calls, dl, cg, go, inv, det>>

\* ------------------------------------------------------------ idle frames
NoDl == [pc |-> "none", dir |-> <<>>, version |-> "", platform |-> "",
         arch |-> "", url |-> "", fetches |-> 0, status |-> 0, ok |-> FALSE,
         body |-> "none", extract |-> "none", bodyErrored |-> FALSE,
         extractErrored |-> FALSE, promise |-> "none", error |-> <<>>]
NoGo == [made |-> FALSE, id |-> 0, cwd |-> "", goPath |-> <<>>,
         opts |-> Empty, env |-> Empty]
NoCg == [pc |-> "none", caller |-> "", goPath |-> <<>>, platform |-> "",
         arch |-> "", goMod |-> FALSE, bin |-> "none", pkg |-> "none",
         go |-> NoGo]
NoInv == [pc |-> "none", via |-> "", src |-> [isArray |-> FALSE, v |-> <<>>],
          dest |-> "", file |-> "", args |-> <<>>, options |-> Empty,
          cwd |-> "", env |-> Empty, call |-> "none"]
NoDet == [pc |-> "none", filePath |-> "", bin |-> <<>>, args |-> <<>>,
          exitCode |-> 0, stdout |-> "", name |-> ""]

Init ==
  /\ processCwd \in Cwds
  /\ processEnv \in ProcessEnvs
  /\ dirs = {}
  /\ calls = 0
  /\ dl = NoDl
  /\ cg = NoCg
  /\ go = NoGo
  /\ inv = NoInv
  /\ det = NoDet

\* No top-level call of the caller is in flight.
Idle ==
  /\ dl.pc \notin {"fetch", "mkdirp", "stream", "createGo"}
  /\ cg.pc # "await"
  /\ cg.bin # "pending" /\ cg.pkg # "pending"
  /\ inv.pc # "running"
  /\ det.pc # "running"

\* process.chdir(d), at any moment.
Chdir(d) ==
  /\ d # processCwd
  /\ processCwd' = d
  /\ UNCHANGED <<processEnv, dirs, calls, dl, cg, go, inv, det>>

\* ---------------------------------------------------------------- createGo
\* `${dirname(GO_BIN)}:${process.env.PATH}`
PathTemplate(penv) ==
  <<dirname(GO_BIN)>> \o (IF HasKey(penv, "PATH") THEN penv.PATH
                          ELSE << <<"undefined">> >>)

ComposeEnv(penv, goPath, opts, goMod) ==
  LET base == Spread(Spread(penv, [PATH |-> PathTemplate(penv), GOPATH |-> goPath]),
                     IF HasKey(opts, "env") THEN opts.env ELSE Empty)
  IN IF goMod THEN Spread(base, [GO111MODULE |-> "on"]) ELSE base

\* go.cwd = opts.cwd || process.cwd()
HandleCwd(opts, pcwd) ==
  IF HasKey(opts, "cwd") /\ Truthy(opts.cwd) THEN opts.cwd ELSE pcwd

\* The frame of createGo up to its `await createGoPathTree(...)`.
CreateGoFrame(caller, id, goPath, platform, arch, opts, goMod) ==
  [pc |-> "await", caller |-> caller, goPath |-> goPath, platform |-> platform,
   arch |-> arch, goMod |-> goMod, bin |-> "pending", pkg |-> "pending",
   go |-> [made |-> TRUE, id |-> id, cwd |-> HandleCwd(opts, processCwd),
           goPath |-> goPath, opts |-> opts,
           env |-> ComposeEnv(processEnv, goPath, opts, goMod)]]

CreateGoCall(goPath, platform, arch, opts, goMod) ==
  /\ Idle
  /\ calls < MaxCalls
  /\ calls' = calls + 1
  /\ cg' = CreateGoFrame("user", calls + 1, goPath, platform, arch, opts, goMod)
  /\ dl' = NoDl /\ go' = NoGo /\ inv' = NoInv /\ det' = NoDet
  /\ UNCHANGED <<processCwd, processEnv, dirs>>

\* Variant of tuple: the raw host names are used.
tupleRaw(platform, arch) == platform \o "_" \o arch

tuple(platform, arch) == getPlatform(platform) \o "_" \o getArch(arch)
\* The two directories createGoPathTree creates.
TreeDir(t, goPath, platform, arch) ==
  IF t = "bin" THEN join(goPath, <<"bin">>)
  ELSE join(goPath, <<"pkg", tuple(platform, arch)>>)

\* One of the two mkdirp calls of createGoPathTree settles.
MkdirpTask(t, success) ==
  /\ cg[t] = "pending"
  /\ cg' = [cg EXCEPT ![t] = IF success THEN "done" ELSE "failed"]
  /\ dirs' = IF success
             THEN mkdirp(dirs, TreeDir(t, cg.goPath, cg.platform, cg.arch))
             ELSE dirs
  /\ UNCHANGED <<processCwd, processEnv, calls, dl, go, inv, det>>

\* Promise.all: fulfilled when every member is, rejected with the first failure.
PromiseAll(states) ==
  IF \E s \in states : s = "failed" THEN "rejected"
  ELSE IF \A s \in states : s = "done" THEN "resolved"
  ELSE "pending"

\* createGo resumes after `await createGoPathTree(...)`.
CreateGoSettle ==
  /\ cg.pc = "await"
  /\ PromiseAll({cg.bin, cg.pkg}) # "pending"
  /\ IF PromiseAll({cg.bin, cg.pkg}) = "resolved"
     THEN /\ cg' = [cg EXCEPT !.pc = "returned"]
          /\ go' = cg.go
          /\ dl' = IF cg.caller = "downloadGo"
                   THEN [dl EXCEPT !.pc = "returned"] ELSE dl
     ELSE /\ cg' = [cg EXCEPT !.pc = "threw"]
          /\ go' = go
          /\ dl' = IF cg.caller = "downloadGo"
                   THEN [dl EXCEPT !.pc = "threw", !.error = <<"mkdirp failed">>]
                   ELSE dl
  /\ UNCHANGED <<processCwd, processEnv, dirs, calls, inv, det>>

\* -------------------------------------------------------------- downloadGo
\* A promise settles once: resolve and reject act only while it is pending.
Resolve(promise) == IF promise = "pending" THEN "resolved" ELSE promise
Reject(promise) == IF promise = "pending" THEN "rejected" ELSE promise

\* res.ok of a fetch response
ResOk(status) == status >= 200 /\ status <= 299

\* Variant of DownloadError: the message names the URL only.
DownloadErrorNoStatus(url, status) == <<"Failed to download: ", url>>

\* `Failed to download: ${url} (${res.status})`, as its pieces
DownloadError(url, status) ==
  <<"Failed to download: ", url, " (", ToString(status), ")">>

\* downloadGo up to `await fetch(url)`.
DownloadGoCall(dir, version, platform, arch) ==
  /\ Idle
  /\ calls < MaxCalls
  /\ calls' = calls + 1
  /\ dl' = [NoDl EXCEPT !.pc = "fetch", !.dir = dir, !.version = version,
                        !.platform = platform, !.arch = arch,
                        !.url = getGoUrl(version, platform, arch),
                        !.fetches = 1]
  /\ cg' = NoCg /\ go' = NoGo /\ inv' = NoInv /\ det' = NoDet
  /\ UNCHANGED <<processCwd, processEnv, dirs>>

\* fetch rejects (network failure): downloadGo rejects with it.
FetchReject ==
  /\ dl.pc = "fetch"
  /\ dl' = [dl EXCEPT !.pc = "threw", !.error = <<"FetchError">>]
  /\ UNCHANGED <<processCwd, processEnv, dirs, calls, cg, go, inv, det>>

\* fetch resolves with a response: throw when !res.ok, else start mkdirp(dir).
FetchRespond(status) ==
  /\ dl.pc = "fetch"
  /\ dl' = IF ~ResOk(status)
           THEN [dl EXCEPT !.pc = "threw", !.status = status, !.ok = FALSE,
                           !.error = DownloadError(dl.url, status)]
           ELSE [dl EXCEPT !.pc = "mkdirp", !.status = status, !.ok = TRUE]
  /\ UNCHANGED <<processCwd, processEnv, dirs, calls, cg, go, inv, det>>

\* `await mkdirp(dir)` settles; on success the streams are wired up.
MkdirpDir(success) ==
  /\ dl.pc = "mkdirp"
  /\ IF success
     THEN /\ dirs' = mkdirp(dirs, dl.dir)
          /\ dl' = [dl EXCEPT !.pc = "stream", !.body = "flowing",
                              !.extract = "open", !.promise = "pending"]
     ELSE /\ dirs' = dirs
          /\ dl' = [dl EXCEPT !.pc = "threw", !.error = <<"mkdirp failed">>]
  /\ UNCHANGED <<processCwd, processEnv, calls, cg, go, inv, det>>

\* res.body emits 'error'.
BodyError ==
  /\ dl.body = "flowing"
  /\ dl' = [dl EXCEPT !.body = "errored", !.bodyErrored = TRUE,
                      !.promise = Reject(dl.promise)]
  /\ UNCHANGED <<processCwd, processEnv, dirs, calls, cg, go, inv, det>>

\* res.body ends: pipe ends the extraction stream.
BodyEnd ==
  /\ dl.body = "flowing"
  /\ dl' = [dl EXCEPT !.body = "ended",
                      !.extract = IF dl.extract = "open" THEN "ended"
                                  ELSE dl.extract]
  /\ UNCHANGED <<processCwd, processEnv, dirs, calls, cg, go, inv, det>>

\* Variant of ExtractError: no 'error' listener on the extraction stream.
ExtractErrorUnhandled ==
  /\ dl.extract \in {"open", "ended"}
  /\ dl' = [dl EXCEPT !.extractErrored = TRUE]
  /\ UNCHANGED <<processCwd, processEnv, dirs, calls, cg, go, inv, det>>

\* tar.extract emits 'error' (while it is still extracting).
ExtractError ==
  /\ dl.extract \in {"open", "ended"}
  /\ dl' = [dl EXCEPT !.extractErrored = TRUE, !.promise = Reject(dl.promise)]
  /\ UNCHANGED <<processCwd, processEnv, dirs, calls, cg, go, inv, det>>

\* tar.extract emits 'finish': the toolchain is in dir (archive root stripped).
ExtractFinish ==
  /\ dl.extract = "ended"
  /\ dl' = [dl EXCEPT !.extract = "finished", !.promise = Resolve(dl.promise)]
  /\ dirs' = mkdirp(dirs, join(dl.dir, <<"bin">>))
  /\ UNCHANGED <<processCwd, processEnv, calls, cg, go, inv, det>>

\* downloadGo resumes after `await new Promise(...)`.
DownloadAwait ==
  /\ dl.pc = "stream"
  /\ dl.promise # "pending"
  /\ IF dl.promise = "resolved"
     THEN /\ dl' = [dl EXCEPT !.pc = "createGo"]
          /\ cg' = CreateGoFrame("downloadGo", calls, dl.dir, dl.platform,
                                 dl.arch, Empty, FALSE)
     ELSE /\ dl' = [dl EXCEPT !.pc = "threw", !.error = <<"stream error">>]
          /\ cg' = cg
  /\ UNCHANGED <<processCwd, processEnv, dirs, calls, go, inv, det>>

\* ------------------------------------------------------- handle operations
\* execa(file, args, options): the child runs in options.cwd, or in the
\* process's working directory at spawn time when none is given.
execa(file, args, options, pcwd) ==
  [file |-> file, args |-> args, options |-> options,
   cwd |-> IF HasKey(options, "cwd") THEN options.cwd ELSE pcwd,
   env |-> IF HasKey(options, "env") THEN options.env ELSE Empty]

\* go(...args) of a handle h
goFn(h, args, pcwd) ==
  execa("go", args,
        Spread(Spread([stdio |-> "inherit"], h.opts), [env |-> h.env]), pcwd)

\* Variant of getArgs: src is pushed whether or not it is given.
getArgsAlways(src) == <<"get", src>>

\* args of get({ src })
getArgs(src) == IF Truthy(src) THEN <<"get", src>> ELSE <<"get">>

\* A JavaScript value that is a string or an array of strings: an array is
\* [isArray |-> TRUE, v |-> its elements], a string s is
\* [isArray |-> FALSE, v |-> <<s>>].
Str(s) == [isArray |-> FALSE, v |-> <<s>>]
Arr(q) == [isArray |-> TRUE, v |-> q]
StrOf(x) == x.v[1]

\* Variant of buildArgs: the output flag trails the sources.
buildArgsOutputLast(src, dest) ==
  <<"build">> \o (IF src.isArray THEN src.v ELSE <<src.v[1]>>) \o <<"-o", dest>>

\* args of build({ src, dest })
buildArgs(src, dest) ==
  LET sources == IF src.isArray THEN src.v ELSE <<StrOf(src)>>
  IN <<"build", "-o", dest>> \o sources

\* The invocation frame: the spawned child and the promise of the call.
Invocation(via, src, dest, child) ==
  [pc |-> "running", via |-> via, src |-> src, dest |-> dest,
   file |-> child.file, args |-> child.args, options |-> child.options,
   cwd |-> child.cwd, env |-> child.env, call |-> "pending"]

\* The caller invokes the handle directly: go(...args).
GoCall(args) ==
  /\ Idle /\ go.made
  /\ inv' = Invocation("go", NoInv.src, "", goFn(go, args, processCwd))
  /\ dl' = NoDl /\ cg' = NoCg /\ det' = NoDet
  /\ UNCHANGED <<processCwd, processEnv, dirs, calls, go>>

\* go.get({ src }) up to `await this(...args)`.
GetCall(src) ==
  /\ Idle /\ go.made
  /\ inv' = Invocation("get", Str(src), "",
                       goFn(go, getArgs(src), processCwd))
  /\ dl' = NoDl /\ cg' = NoCg /\ det' = NoDet
  /\ UNCHANGED <<processCwd, processEnv, dirs, calls, go>>

\* go.build({ src, dest }) up to `await this(...)`.
BuildCall(src, dest) ==
  /\ Idle /\ go.made
  /\ inv' = Invocation("build", src, dest,
                       goFn(go, buildArgs(src, dest), processCwd))
  /\ dl' = NoDl /\ cg' = NoCg /\ det' = NoDet
  /\ UNCHANGED <<processCwd, processEnv, dirs, calls, go>>

\* The child exits; get and build resume after their await.
ExecaExit(code) ==
  /\ inv.pc = "running"
  /\ inv' = [inv EXCEPT !.pc = IF code = 0 THEN "ok" ELSE "failed",
                        !.call = IF code = 0 THEN "returned" ELSE "threw"]
  /\ UNCHANGED <<processCwd, processEnv, dirs, calls, dl, cg, go, det>>

\* ------------------------------------------------- getExportedFunctionName
DetectCall(filePath) ==
  /\ Idle
  /\ det' = [NoDet EXCEPT !.pc = "running", !.filePath = filePath,
                          !.bin = join(dirnameOfModule,
                                       <<"get-exported-function-name">>),
                          !.args = <<filePath>>]
  /\ dl' = NoDl /\ cg' = NoCg /\ inv' = NoInv
  /\ UNCHANGED <<processCwd, processEnv, dirs, calls, go>>

\* execa.stdout: rejects on a non-zero exit, else resolves with the output.
DetectExit(code, out) ==
  /\ det.pc = "running"
  /\ det' = IF code # 0
            THEN [det EXCEPT !.pc = "threw", !.exitCode = code, !.stdout = out]
            ELSE [det EXCEPT !.pc = "returned", !.exitCode = code,
                             !.stdout = out, !.name = out]
  /\ UNCHANGED <<processCwd, processEnv, dirs, calls, dl, cg, go, inv>>

\* ------------------------------------------------------------------- inputs
RECURSIVE SeqsUpTo(_, _)
SeqsUpTo(S, n) ==
  IF n = 0 THEN {<<>>}
  ELSE LET shorter == SeqsUpTo(S, n - 1)
       IN shorter \cup {Append(q, x) : q \in shorter, x \in S}
\* build's src: one path, or an array of 1..MaxSources paths.
BuildSrcs ==
  {Str(f) : f \in SrcFiles}
    \cup {Arr(q) : q \in SeqsUpTo(SrcFiles, MaxSources) \ {<<>>}}
GetSrcs == {undefined, ""} \cup SrcFiles
GoArgs == {<<"env", "GOPATH">>}

Next ==
  \/ \E d \in Cwds : Chdir(d)
  \/ \E gp \in GoPaths, t \in Targets, o \in OptsSet, m \in BOOLEAN :
       CreateGoCall(gp, t[1], t[2], o, m)
  \/ \E t \in {"bin", "pkg"}, s \in BOOLEAN : MkdirpTask(t, s)
  \/ CreateGoSettle
  \/ \E d \in Dirs, v \in Versions, p \in Platforms, a \in Archs :
       DownloadGoCall(d, v, p, a)
  \/ FetchReject
  \/ \E st \in Statuses : FetchRespond(st)
  \/ \E s \in BOOLEAN : MkdirpDir(s)
  \/ BodyError
  \/ BodyEnd
  \/ ExtractError
  \/ ExtractFinish
  \/ DownloadAwait
  \/ \E args \in GoArgs : GoCall(args)
  \/ \E src \in GetSrcs : GetCall(src)
  \/ \E src \in BuildSrcs, dest \in DestFiles : BuildCall(src, dest)
  \/ \E c \in ExitCodes : ExecaExit(c)
  \/ \E f \in SrcFiles : DetectCall(f)
  \/ \E c \in ExitCodes, out \in Stdouts : DetectExit(c, out)

Spec == Init /\ [][Next]_vars
\* ================================================================= claims
\* Toolchain-vendor names, as the vendor publishes them.
VendorName(raw) ==
  CASE raw = "win32" -> "windows"
    [] raw = "x64" -> "amd64"
    [] raw = "x86" -> "386"
    [] OTHER -> raw
\* opts.env as the caller supplied it (nothing when the key is missing).
CallerEnv(opts) == IF HasKey(opts, "env") THEN opts.env ELSE Empty

\* C1: in the environment of every toolchain invocation, every variable the
\* caller supplied in opts.env (PATH, GOPATH, GO111MODULE included) holds the
\* caller's value, whatever goMod is.
C1_CallerEnvWins ==
  inv.pc # "none" =>
    \A k \in DOMAIN CallerEnv(go.opts) :
      HasKey(inv.env, k) /\ inv.env[k] = CallerEnv(go.opts)[k]

\* C2: when the response is not successful, downloadGo fails with an error
\* that contains the attempted URL and the status code, after exactly one
\* fetch, with no extraction, no createGo call and no handle.
C2_FailedDownload ==
  (dl.status # 0 /\ ~dl.ok) =>
    /\ dl.pc = "threw"
    /\ \E i \in 1..Len(dl.error) : dl.error[i] = dl.url
    /\ \E i \in 1..Len(dl.error) : dl.error[i] = ToString(dl.status)
    /\ dl.fetches = 1
    /\ dl.body = "none" /\ dl.extract = "none" /\ dl.promise = "none"
    /\ cg.pc = "none"
    /\ ~go.made
C2_Witness == dl.pc = "threw" /\ dl.status = 404 /\ ~dl.ok

\* C3: for every install directory, a successful downloadGo returns a handle
\* whose PATH begins with the bin directory of the toolchain extracted into
\* that directory.
C3_PathBeginsWithInstalledBin ==
  dl.pc = "returned" =>
    /\ go.made
    /\ Head(go.env.PATH) = join(dl.dir, <<"bin">>)

\* C4: createGo returns a handle only after goPath/bin and
\* goPath/pkg/<vendor platform>_<vendor arch> exist, the tuple directory being
\* named by the vendor names and never by the raw host names; when either
\* directory creation fails, createGo does not return and there is no handle.
C4_TreeBeforeHandle ==
  LET vendorTuple == VendorName(cg.platform) \o "_" \o VendorName(cg.arch)
      rawTuple == cg.platform \o "_" \o cg.arch
  IN /\ cg.pc = "returned" =>
          /\ go.made /\ go.goPath = cg.goPath
          /\ join(cg.goPath, <<"bin">>) \in dirs
          /\ join(cg.goPath, <<"pkg", vendorTuple>>) \in dirs
          /\ rawTuple # vendorTuple => join(cg.goPath, <<"pkg", rawTuple>>) \notin dirs
     /\ (cg.bin = "failed" \/ cg.pkg = "failed") =>
          /\ cg.pc \in {"await", "threw"}
          /\ ~go.made
C4_Witness ==
  /\ cg.pc = "returned" /\ cg.platform = "win32" /\ cg.arch = "x64"
  /\ join(cg.goPath, <<"pkg", "windows_amd64">>) \in dirs

\* C5: getGoUrl is https://dl.google.com/go/go<version>.<vendor platform>-
\* <vendor arch>.<ext>, ext being zip for every platform whose vendor name is
\* windows and tar.gz otherwise.
C5_UrlShape ==
  dl.pc # "none" =>
    dl.url = "https://dl.google.com/go/go" \o dl.version \o "."
               \o VendorName(dl.platform) \o "-" \o VendorName(dl.arch) \o "."
               \o (IF VendorName(dl.platform) = "windows" THEN "zip" ELSE "tar.gz")

\* C6: build issues `go build -o <dest> <sources...>`, the sources in their
\* given order and each its own argument; a single path p gives the very
\* invocation the one-element sequence [p] gives.
C6_BuildArgs ==
  inv.via = "build" =>
    /\ inv.file = "go"
    /\ Len(inv.args) = 3 + Len(inv.src.v)
    /\ inv.args[1] = "build" /\ inv.args[2] = "-o" /\ inv.args[3] = inv.dest
    /\ \A i \in 1..Len(inv.src.v) : inv.args[3 + i] = inv.src.v[i]
    /\ ~inv.src.isArray => inv.args = <<"build", "-o", inv.dest, inv.src.v[1]>>
    /\ (inv.src.isArray /\ Len(inv.src.v) = 1) =>
         inv.args = <<"build", "-o", inv.dest, inv.src.v[1]>>
C6_Witness ==
  /\ inv.via = "build" /\ inv.pc = "ok"
  /\ ~inv.src.isArray /\ inv.args = <<"build", "-o", "handler", "main.go">>

\* C7: get without a source path runs `go get` and nothing more; get with a
\* source path runs `go get <path>`; get returns only after the invocation
\* has completed and fails when the invocation fails.
C7_GetArgs ==
  inv.via = "get" =>
    /\ inv.file = "go"
    /\ inv.src.v[1] \in SrcFiles => inv.args = <<"get", inv.src.v[1]>>
    /\ inv.src.v[1] \notin SrcFiles => inv.args = <<"get">>
    /\ inv.call = "returned" => inv.pc = "ok"
    /\ inv.pc = "failed" => inv.call = "threw"
    /\ inv.pc = "running" => inv.call = "pending"
C7_Witness ==
  /\ inv.via = "get" /\ inv.src.v[1] = undefined
  /\ inv.args = <<"get">> /\ inv.call = "returned"

\* C8: getExportedFunctionName runs the detector with the file path as its
\* only argument and never returns an empty name: a non-zero exit and an
\* empty output both make it fail.
C8_NeverEmptyName ==
  /\ det.pc # "none" => det.args = <<det.filePath>>
  /\ det.pc = "returned" => (det.exitCode = 0 /\ det.name # "")

C10_RunsInHandleCwd ==
  inv.pc # "none" => (inv.cwd = go.cwd /\ inv.env = go.env)
====
